---------------------------- MODULE Spec2Model ----------------------------
(***************************************************************************)
(* SpotmarktSyncService: the daily reconciliation of admin-panel contacts  *)
(* (individual users and ZR organisation contacts) into Shopware customers.*)
(*                                                                         *)
(* The model follows src/main.py (run_sync, main), src/src/sync_service.py *)
(* (the two passes), src/src/shopware_client.py (lookups, reference data,  *)
(* the create and update payloads) and src/src/admin_panel_client.py (the  *)
(* two fetches and their filters).  The admin panel and the Shopware       *)
(* instance are the environment: their data are state variables, and every *)
(* request may fail.                                                       *)
(***************************************************************************)
EXTENDS Naturals, Sequences, FiniteSets

(***************************************************************************)
(* Bounds of the model.                                                    *)
(***************************************************************************)
\* Longest contact list the admin panel returns for either endpoint.
MaxList == 2
\* Runs of run_sync in one behaviour.
MaxRuns == 2
\* Requests that fail (transport error or rejection) in one behaviour.
MaxFaults == 1

(***************************************************************************)
(* Values.  None is Python's None / JSON null; an absent id is 0.          *)
(***************************************************************************)
None == "None"
NoId == 0

Truthy(v) == v # None /\ v # ""

\* str.upper() on the ISO codes that occur.
Upper(s) == IF s = "de" THEN "DE" ELSE s

(***************************************************************************)
(* Admin panel data: the raw JSON objects the two endpoints return.        *)
(***************************************************************************)
RawUser(entra, zr, mail, firma, land, typ, ust) ==
    [vorname |-> "Thomas", name |-> "Kauer", eMailadresse |-> mail,
     uStID |-> ust, zrNummer |-> zr, firma |-> firma, strasse |-> "Hauptstr. 1",
     postleitzahl |-> "8000", stadt |-> "Zuerich", land |-> land,
     adresstyp |-> typ, entraID |-> entra]

RawZr(zr, firma, land, typ, ust) ==
    [uStID |-> ust, zrNummer |-> zr, firma |-> firma, strasse |-> "Ring 2",
     postleitzahl |-> "50667", stadt |-> "Koeln", land |-> land,
     adresstyp |-> typ]

MockEmail == "thomas.kauer@kauer.ch"
ZrAllowList == {"112212", "112213", "112214"}
BillingType == "Rechnungsanschrift"
ShippingType == "Lieferanschrift"
BothTypes == "Rechnungsanschrift;Lieferanschrift"

\* The individual contacts the admin panel may hold, in its listing order: one
\* person (entraID e1) under two sets of data, and a person whose e-mail address
\* is not the one get_all_contacts keeps.
UserUniverse ==
    << RawUser("e1", "112212", MockEmail, "Kauer AG", "DE", BothTypes, "CHE1"),
       RawUser("e1", "112213", MockEmail, "Kauer GmbH", "XX", BillingType, None),
       RawUser("e2", "112212", "anna@kauer.ch", "Kauer AG", "DE", ShippingType, None) >>

\* The organisation contacts the admin panel may hold, in its listing order: one
\* organisation (112212) under two sets of data, and one outside the allow-list.
ZrUniverse ==
    << RawZr("112212", "Kauer AG", "de", BothTypes, "CHE1"),
       RawZr("112212", "Kauer Holding", "XX", BillingType, None),
       RawZr("999999", "Fremd AG", "DE", ShippingType, None) >>

RECURSIVE SubSeqs(_, _)
\* The subsequences of s of length at most n.
SubSeqs(s, n) ==
    IF s = <<>> \/ n = 0 THEN {<<>>}
    ELSE SubSeqs(Tail(s), n) \cup {<<Head(s)>> \o t : t \in SubSeqs(Tail(s), n - 1)}

UserSources == SubSeqs(UserUniverse, MaxList)
ZrSources == SubSeqs(ZrUniverse, MaxList)

\* The comprehension's filter of get_all_contacts: every mandatory field truthy.
UserComplete(c) ==
    /\ Truthy(c.adresstyp) /\ Truthy(c.eMailadresse) /\ Truthy(c.vorname)
    /\ Truthy(c.name) /\ Truthy(c.entraID) /\ Truthy(c.firma)
    /\ Truthy(c.zrNummer) /\ Truthy(c.strasse) /\ Truthy(c.postleitzahl)
    /\ Truthy(c.stadt) /\ Truthy(c.land)

IsMockUser(c) == c.eMailadresse = MockEmail

\* get_all_contacts on a successful response: the list handed to sync_users.
get_all_contacts(raw) == SelectSeq(SelectSeq(raw, UserComplete), IsMockUser)

InAllowList(c) == c.zrNummer \in ZrAllowList

\* get_all_zr_contacts on a successful response: the allow-listed contacts.
get_all_zr_contacts(raw) == SelectSeq(raw, InAllowList)

(***************************************************************************)
(* Shopware reference data.                                                *)
(***************************************************************************)
\* GET /api/country?filter[iso]=...: the ids of the countries with that ISO code.
Countries(iso) == IF iso = "DE" THEN <<"country-DE">> ELSE <<>>

\* _get_country_id: the first match, None when there is none or the request fails.
get_country_id(iso_code, requestOk) ==
    IF ~requestOk THEN None
    ELSE LET countries == Countries(Upper(iso_code))
         IN IF countries # <<>> THEN countries[1] ELSE None

\* The customer-group listings a Shopware instance may have (a group's id is
\* written "id:" + name).
GroupListings ==
    { <<>>,
      <<"Standard customer group">>,
      <<"Standard customer group", "User-Kunden", "ZR-Kunden">> }

GroupId(name) == "id:" \o name

RECURSIVE FirstNamed(_, _)
FirstNamed(listing, group_name) ==
    IF listing = <<>> THEN None
    ELSE IF Head(listing) = group_name THEN GroupId(Head(listing))
    ELSE FirstNamed(Tail(listing), group_name)

\* _get_customer_group_id: the group of that name, else the first group, else
\* None; None too when the request fails.
get_customer_group_id(listing, group_name, requestOk) ==
    IF ~requestOk THEN None
    ELSE IF FirstNamed(listing, group_name) # None THEN FirstNamed(listing, group_name)
    ELSE IF listing # <<>> THEN GroupId(listing[1]) ELSE None

GroupName(is_zr_contact) == IF is_zr_contact THEN "ZR-Kunden" ELSE "User-Kunden"

SalutationId == "0194f5c3188270cebd82c273d4142f1a"
SalesChannelId == "019523bfc9e77764a3373ddc1bafdb18"
LanguageId == "0194f5c317e673168b59b25c7f5514cc"
PaymentMethodId == "0197a6f28afe77af91a0c5e23c4c4633"
ZrEmailDomain == "@einrichtungspartnerring.com"

(***************************************************************************)
(* The destination: Shopware's customers, in the order GET /api/customer   *)
(* lists them.  A customer's id is its place in that listing; it keeps the *)
(* fields of the payloads written to it, its addresses and the custom      *)
(* field custom_identifier_user_entraid_ (entraID).                        *)
(***************************************************************************)
Max(S) == IF S = {} THEN 0 ELSE CHOOSE m \in S : \A x \in S : x <= m

AllAddressIds(d) ==
    UNION {{d[i].addresses[j].id : j \in 1..Len(d[i].addresses)} : i \in 1..Len(d)}

\* An address id that a stored address already has.
Uuid4Reused(d) == Max(AllAddressIds(d))

\* str(uuid4()).replace("-", ""): an identifier no stored address has.
Uuid4(d) == Max(AllAddressIds(d)) + 1

\* POST /api/customer accepted: a new customer holding the payload.
Post(d, customer_data) ==
    Append(d, [id |-> Len(d) + 1,
               email |-> customer_data.email,
               firstName |-> customer_data.firstName,
               lastName |-> customer_data.lastName,
               customerNumber |-> customer_data.customerNumber,
               company |-> customer_data.company,
               vatIds |-> customer_data.vatIds,
               groupId |-> customer_data.groupId,
               defaultBillingAddressId |-> customer_data.defaultBillingAddressId,
               defaultShippingAddressId |-> customer_data.defaultShippingAddressId,
               addresses |-> customer_data.addresses,
               entraID |-> customer_data.customFields[1]])

\* The addresses of a customer after a payload's address is written: the address
\* of that id is replaced, an address of an unknown id is added, and an address
\* without an id is added under an id the server mints.
UpsertAddress(d, addresses, a) ==
    IF a.id = NoId THEN Append(addresses, [a EXCEPT !.id = Uuid4(d)])
    ELSE IF \E j \in 1..Len(addresses) : addresses[j].id = a.id
         THEN [j \in 1..Len(addresses) |->
                  IF addresses[j].id = a.id THEN a ELSE addresses[j]]
         ELSE Append(addresses, a)

\* PATCH /api/customer/{id} accepted: the payload's fields overwrite the
\* customer's; customFields, which the payload does not carry, stay.
Patch(d, customer_id, customer_data) ==
    [d EXCEPT ![customer_id] =
        [id |-> @.id,
         email |-> customer_data.email,
         firstName |-> customer_data.firstName,
         lastName |-> customer_data.lastName,
         customerNumber |-> customer_data.customerNumber,
         company |-> customer_data.company,
         vatIds |-> customer_data.vatIds,
         groupId |-> customer_data.groupId,
         defaultBillingAddressId |-> customer_data.defaultBillingAddressId,
         defaultShippingAddressId |-> customer_data.defaultShippingAddressId,
         addresses |-> UpsertAddress(d, @.addresses, customer_data.addresses[1]),
         entraID |-> @.entraID]]

HasEntraId(d, identifier) == {i \in 1..Len(d) : d[i].entraID = identifier}
HasCustomerNumber(d, customer_number) ==
    {i \in 1..Len(d) : d[i].customerNumber = customer_number}

Min(S) == CHOOSE m \in S : \A x \in S : m <= x

\* get_customer_by_custom_field_entraid on a successful response: customers[0]
\* of the customers whose custom field equals the identifier, None (<<>>) if none.
get_customer_by_custom_field_entraid(d, identifier) ==
    IF HasEntraId(d, identifier) # {} THEN <<d[Min(HasEntraId(d, identifier))]>>
    ELSE <<>>

\* A lookup that takes only organisation records (no entraID) into account.
get_customer_by_customer_number_zr_only(d, customer_number) ==
    LET S == {i \in HasCustomerNumber(d, customer_number) : d[i].entraID = None}
    IN IF S # {} THEN <<d[Min(S)]>> ELSE <<>>

\* get_customer_by_customer_number on a successful response: customers[0] of the
\* customers with that customerNumber, None (<<>>) if none.
get_customer_by_customer_number(d, customer_number) ==
    IF HasCustomerNumber(d, customer_number) # {}
    THEN <<d[Min(HasCustomerNumber(d, customer_number))]>>
    ELSE <<>>

(***************************************************************************)
(* The payloads.                                                           *)
(***************************************************************************)
\* An e-mail address for ZR contacts that lacks the "zr" prefix.
PayloadEmailNoPrefix(contact, is_zr_contact) ==
    IF is_zr_contact THEN contact.zrNummer \o ZrEmailDomain
    ELSE contact.eMailadresse

\* The "email" entry of customer_data, shared by create and update.
PayloadEmail(contact, is_zr_contact) ==
    IF is_zr_contact THEN "zr" \o contact.zrNummer \o ZrEmailDomain
    ELSE contact.eMailadresse

\* The entries customer_data has in create_customer_generic and in
\* update_customer_generic alike; customFields is <<>> when the payload has none.
customer_data(contact, is_zr_contact, customer_group_id, country_id, default_address_id, customFields) ==
    [email |-> PayloadEmail(contact, is_zr_contact),
     salutationId |-> SalutationId,
     firstName |-> IF is_zr_contact THEN None ELSE contact.vorname,
     lastName |-> IF is_zr_contact THEN None ELSE contact.name,
     customerNumber |-> contact.zrNummer,
     company |-> contact.firma \o " (" \o contact.zrNummer \o ")",
     vatIds |-> IF Truthy(contact.uStID) THEN <<contact.uStID>> ELSE <<>>,
     groupId |-> customer_group_id,
     salesChannelId |-> SalesChannelId,
     accountType |-> "business",
     languageId |-> LanguageId,
     defaultBillingAddressId |-> default_address_id,
     defaultShippingAddressId |-> default_address_id,
     defaultPaymentMethodId |-> PaymentMethodId,
     addresses |-> << [id |-> default_address_id,
                       firstName |-> IF is_zr_contact THEN None ELSE contact.vorname,
                       lastName |-> IF is_zr_contact THEN None ELSE contact.name,
                       street |-> contact.strasse,
                       zipcode |-> contact.postleitzahl,
                       city |-> contact.stadt,
                       countryId |-> country_id,
                       company |-> contact.firma] >>,
     customFields |-> customFields]

\* all([salutation_id, sales_channel_id, customer_group_id])
RequiredIds(customer_group_id) ==
    Truthy(SalutationId) /\ Truthy(SalesChannelId) /\ Truthy(customer_group_id)

\* create_customer_generic against destination d with customer-group listing
\* `listing`; countryOk, groupOk, writeOk: whether each request gets its answer.
\* The result: whether it raised, the request it issued (<<>> if none) and the
\* destination afterwards.
create_customer_generic(d, listing, contact, is_zr_contact, countryOk, groupOk, writeOk) ==
    LET country_id == get_country_id(contact.land, countryOk)
        customer_group_id ==
            get_customer_group_id(listing, GroupName(is_zr_contact), groupOk)
        payload == customer_data(contact, is_zr_contact, customer_group_id,
                       country_id, Uuid4(d),
                       <<IF is_zr_contact THEN None ELSE contact.entraID>>)
    IN IF ~RequiredIds(customer_group_id)
       THEN [raised |-> TRUE, request |-> <<>>, dest |-> d]
       ELSE [raised |-> ~writeOk,
             request |-> <<[method |-> "POST", id |-> NoId, payload |-> payload]>>,
             dest |-> IF writeOk THEN Post(d, payload) ELSE d]

\* A read of defaultBillingAddressId at the top level of the customer object,
\* where the JSON:API response does not have it.
default_address_id_top_level(existing_customer) == NoId

\* existing_customer.get("attributes", {}).get("defaultBillingAddressId")
default_address_id_of(existing_customer) == existing_customer.defaultBillingAddressId

\* update_customer_generic, likewise, for the customer the lookup returned.
update_customer_generic(d, listing, contact, is_zr_contact, existing_customer, countryOk, groupOk, writeOk) ==
    LET customer_id == existing_customer.id
        default_address_id == default_address_id_of(existing_customer)
        customer_group_id ==
            get_customer_group_id(listing, GroupName(is_zr_contact), groupOk)
        country_id == get_country_id(contact.land, countryOk)
        payload == customer_data(contact, is_zr_contact, customer_group_id,
                       country_id, default_address_id, <<>>)
    IN [raised |-> ~writeOk,
        request |-> <<[method |-> "PATCH", id |-> customer_id, payload |-> payload]>>,
        dest |-> IF writeOk THEN Patch(d, customer_id, payload) ELSE d]

(***************************************************************************)
(* The loop bodies of the two passes.  The result: the counter the record  *)
(* is tallied in, the customer the lookup returned, the write request that  *)
(* was issued and the destination afterwards.                              *)
(***************************************************************************)
\* A loop body that creates whatever the lookup returned.
sync_users_body_create(d, listing, user, lookupOk, countryOk, groupOk, writeOk) ==
    LET existing_customer == get_customer_by_custom_field_entraid(d, user.entraID)
        w == create_customer_generic(d, listing, user, FALSE, countryOk, groupOk, writeOk)
    IN IF ~lookupOk
       THEN [tally |-> "failed", found |-> <<>>, request |-> <<>>, dest |-> d]
       ELSE [tally |-> IF w.raised THEN "failed" ELSE "created",
             found |-> existing_customer, request |-> w.request, dest |-> w.dest]

\* A loop body that looks the customer up by e-mail address, as the superseded
\* client did.
sync_users_body_by_email(d, listing, user, lookupOk, countryOk, groupOk, writeOk) ==
    LET S == {i \in 1..Len(d) : d[i].email = user.eMailadresse}
        existing_customer == IF S # {} THEN <<d[Min(S)]>> ELSE <<>>
        w == IF existing_customer # <<>>
             THEN update_customer_generic(d, listing, user, FALSE,
                      existing_customer[1], countryOk, groupOk, writeOk)
             ELSE create_customer_generic(d, listing, user, FALSE,
                      countryOk, groupOk, writeOk)
    IN IF ~lookupOk
       THEN [tally |-> "failed", found |-> <<>>, request |-> <<>>, dest |-> d]
       ELSE [tally |-> IF w.raised THEN "failed"
                       ELSE IF existing_customer # <<>> THEN "updated" ELSE "created",
             found |-> existing_customer, request |-> w.request, dest |-> w.dest]

\* The try block of sync_users' loop for one user.
sync_users_body(d, listing, user, lookupOk, countryOk, groupOk, writeOk) ==
    LET existing_customer == get_customer_by_custom_field_entraid(d, user.entraID)
        w == IF existing_customer # <<>>
             THEN update_customer_generic(d, listing, user, FALSE,
                      existing_customer[1], countryOk, groupOk, writeOk)
             ELSE create_customer_generic(d, listing, user, FALSE,
                      countryOk, groupOk, writeOk)
    IN IF ~lookupOk
       THEN [tally |-> "failed", found |-> <<>>, request |-> <<>>, dest |-> d]
       ELSE [tally |-> IF w.raised THEN "failed"
                       ELSE IF existing_customer # <<>> THEN "updated" ELSE "created",
             found |-> existing_customer, request |-> w.request, dest |-> w.dest]

\* A loop body that counts the record before it calls update or create.
sync_zr_customers_body_counts_first(d, listing, zr_contact, lookupOk, countryOk, groupOk, writeOk) ==
    LET existing_customer == get_customer_by_customer_number(d, zr_contact.zrNummer)
        w == IF existing_customer # <<>>
             THEN update_customer_generic(d, listing, zr_contact, TRUE,
                      existing_customer[1], countryOk, groupOk, writeOk)
             ELSE create_customer_generic(d, listing, zr_contact, TRUE,
                      countryOk, groupOk, writeOk)
    IN IF ~lookupOk
       THEN [tally |-> "failed", found |-> <<>>, request |-> <<>>, dest |-> d]
       ELSE [tally |-> IF existing_customer # <<>> THEN "updated" ELSE "created",
             found |-> existing_customer, request |-> w.request, dest |-> w.dest]

\* The try block of sync_zr_customers' loop for one ZR contact.
sync_zr_customers_body(d, listing, zr_contact, lookupOk, countryOk, groupOk, writeOk) ==
    LET existing_customer == get_customer_by_customer_number(d, zr_contact.zrNummer)
        w == IF existing_customer # <<>>
             THEN update_customer_generic(d, listing, zr_contact, TRUE,
                      existing_customer[1], countryOk, groupOk, writeOk)
             ELSE create_customer_generic(d, listing, zr_contact, TRUE,
                      countryOk, groupOk, writeOk)
    IN IF ~lookupOk
       THEN [tally |-> "failed", found |-> <<>>, request |-> <<>>, dest |-> d]
       ELSE [tally |-> IF w.raised THEN "failed"
                       ELSE IF existing_customer # <<>> THEN "updated" ELSE "created",
             found |-> existing_customer, request |-> w.request, dest |-> w.dest]

(***************************************************************************)
(* State.                                                                  *)
(***************************************************************************)
VARIABLES
    srcUsers,          \* admin panel: what /api/contacts/list_contact_gs returns
    srcZr,             \* admin panel: what /api/companys/list_gs_adresstyp returns
    groups,            \* Shopware: the customer-group listing
    dest,              \* Shopware: the customers
    pc,                \* where the process is
    mode,              \* "once" (--once) or "scheduled"
    exit,              \* <<>> while running, <<status>> once the process ended
    runs,              \* runs of run_sync started so far
    admin_users,       \* sync_users: the fetched list
    iu,                \* sync_users: index of the next user of the loop
    users_count,       \* sync_users: [updated, created, failed]
    zr_contacts,       \* sync_zr_customers: the fetched list
    iz,                \* sync_zr_customers: index of the next contact
    zr_count,          \* sync_zr_customers: [updated, created, failed]
    resU,              \* run_sync: <<total, existing, created>>, <<>> before
    resZ,              \* run_sync: <<total_zr, existing_zr, created_zr>>
    calls,             \* the requests of the current run, in order
    faults,            \* requests that failed so far
    steady,            \* no request failed in the current run
    dest0,             \* the customers as the current run found them
    rerun,             \* the current run repeats a steady run on unchanged data
    edited             \* the admin panel's data changed since the last run began

vars == <<srcUsers, srcZr, groups, dest, pc, mode, exit, runs, admin_users, iu,
          users_count, zr_contacts, iz, zr_count, resU, resZ, calls, faults,
          steady, dest0, rerun, edited>>

env == <<srcUsers, srcZr, groups>>
usersLocals == <<admin_users, iu, users_count>>
zrLocals == <<zr_contacts, iz, zr_count>>

ZeroCount == [updated |-> 0, created |-> 0, failed |-> 0]

\* One entry of calls.
Call(ev, pass, rec, key, id, payload, ok) ==
    [ev |-> ev, pass |-> pass, rec |-> rec, key |-> key, id |-> id,
     payload |-> payload, ok |-> ok]

\* The entries of an iteration that writes before it looks up.
BodyCallsWriteFirst(pass, rec, key, lookupOk, r) ==
    (IF r.request = <<>> THEN <<>>
     ELSE << Call(r.request[1].method, pass, rec, key, r.request[1].id,
                  <<r.request[1].payload>>, r.tally # "failed") >>)
    \o << Call("lookup", pass, rec, key,
               IF r.found = <<>> THEN NoId ELSE r.found[1].id, <<>>, lookupOk) >>

\* The entries of one loop iteration: the lookup, then the write if one was issued.
BodyCalls(pass, rec, key, lookupOk, r) ==
    << Call("lookup", pass, rec, key,
            IF r.found = <<>> THEN NoId ELSE r.found[1].id, <<>>, lookupOk) >>
    \o (IF r.request = <<>> THEN <<>>
        ELSE << Call(r.request[1].method, pass, rec, key, r.request[1].id,
                     <<r.request[1].payload>>, r.tally # "failed") >>)

\* A result tuple whose total counts the records that were written.
ResultTupleWritten(list, count) ==
    <<count.updated + count.created, count.updated, count.created>>

\* return total_users, updated_users, created_users (and the ZR analogue).
ResultTuple(list, count) == <<Len(list), count.updated, count.created>>

\* A loop that a failed record ends (the exception leaves the loop).
LoopNextAbort(i, tally) == IF tally = "failed" THEN i + MaxList + 1 ELSE i + 1

\* The for loop's advance after a record: the next record, also after the
\* except clause's `continue`.
LoopNext(i, tally) == i + 1

CountFalse(flags) == Cardinality({i \in 1..Len(flags) : ~flags[i]})

\* The flags of the requests an iteration does not make are TRUE.
FlagsUsed(r, lookupOk, countryOk, groupOk, writeOk) ==
    /\ ~lookupOk => countryOk /\ groupOk
    /\ r.request = <<>> => writeOk

Completed == calls # <<>> /\ calls[Len(calls)].ev = "return" /\ calls[Len(calls)].pass = "zr"

\* A customer Shopware may hold before the first run.
SeedCustomer ==
    [id |-> 1, email |-> "alt@kauer.ch", firstName |-> "T.", lastName |-> "Kauer",
     customerNumber |-> "112213", company |-> "Kauer (112213)", vatIds |-> <<>>,
     groupId |-> GroupId("Standard customer group"),
     defaultBillingAddressId |-> 1, defaultShippingAddressId |-> 1,
     addresses |-> << [id |-> 1, firstName |-> "T.", lastName |-> "Kauer",
                       street |-> "Alte Str. 9", zipcode |-> "8000",
                       city |-> "Zuerich", countryId |-> "country-DE",
                       company |-> "Kauer"] >>,
     entraID |-> "e1"]

InitialDests == { <<>>, <<SeedCustomer>> }

InitWith(d) ==
    /\ srcUsers \in UserSources
    /\ srcZr \in ZrSources
    /\ groups \in GroupListings
    /\ dest = d
    /\ pc = "off"
    /\ mode = "once"
    /\ exit = <<>>
    /\ runs = 0
    /\ admin_users = <<>> /\ iu = 0 /\ users_count = ZeroCount
    /\ zr_contacts = <<>> /\ iz = 0 /\ zr_count = ZeroCount
    /\ resU = <<>> /\ resZ = <<>>
    /\ calls = <<>>
    /\ faults = 0
    /\ steady = TRUE
    /\ dest0 = d
    /\ rerun = FALSE
    /\ edited = FALSE

Init == \E d \in InitialDests : InitWith(d)

(***************************************************************************)
(* The admin panel's data change between runs: the data of a person (same  *)
(* entraID) or of an organisation (same zrNummer) are replaced by other    *)
(* data.                                                                   *)
(***************************************************************************)
\* Two lists name the same persons, or organisations, in the same order.
SameUsers(s, t) == Len(s) = Len(t) /\ \A n \in 1..Len(s) : s[n].entraID = t[n].entraID
SameZr(s, t) == Len(s) = Len(t) /\ \A n \in 1..Len(s) : s[n].zrNummer = t[n].zrNummer

AdminPanelEdit ==
    /\ pc \in {"off", "scheduler"}
    /\ runs > 0 /\ runs < MaxRuns
    /\ ~edited
    /\ edited' = TRUE
    /\ \/ /\ srcUsers' \in {t \in UserSources : t # srcUsers /\ SameUsers(srcUsers, t)}
          /\ UNCHANGED srcZr
       \/ /\ srcZr' \in {t \in ZrSources : t # srcZr /\ SameZr(srcZr, t)}
          /\ UNCHANGED srcUsers
    /\ UNCHANGED <<groups, dest, pc, mode, exit, runs, usersLocals, zrLocals, resU,
                   resZ, calls, faults, steady, dest0, rerun>>

(***************************************************************************)
(* main and run_sync.                                                      *)
(***************************************************************************)
\* main: with --once run_sync is called at once, else the scheduler is started.
Main ==
    /\ pc = "off"
    /\ runs < MaxRuns
    /\ \E m \in {"once", "scheduled"} :
          /\ mode' = m
          /\ pc' = IF m = "once" THEN "run_sync" ELSE "scheduler"
    /\ exit' = <<>>
    /\ UNCHANGED <<env, dest, runs, usersLocals, zrLocals, resU, resZ, calls,
                   faults, steady, dest0, rerun, edited>>

\* schedule.run_pending() at the daily time: run_sync is called.
Trigger ==
    /\ pc = "scheduler"
    /\ runs < MaxRuns
    /\ pc' = "run_sync"
    /\ UNCHANGED <<env, dest, mode, exit, runs, usersLocals, zrLocals, resU, resZ,
                   calls, faults, steady, dest0, rerun, edited>>

\* run_sync up to sync_users: the clients are built, ShopwareClient
\* authenticates; a failure is caught by run_sync, which calls sys.exit(1).
RunSyncInit ==
    /\ pc = "run_sync"
    /\ \E authOk \in BOOLEAN :
          /\ ~authOk => faults < MaxFaults
          /\ faults' = IF authOk THEN faults ELSE faults + 1
          /\ steady' = authOk
          /\ calls' = << Call("auth", "run", 0, "", NoId, <<>>, authOk) >>
          /\ pc' = IF authOk THEN "sync_users" ELSE "off"
          /\ exit' = IF authOk THEN exit ELSE <<1>>
    /\ runs' = runs + 1
    /\ dest0' = dest
    /\ rerun' = (Completed /\ steady /\ ~edited)
    /\ edited' = FALSE
    /\ resU' = <<>> /\ resZ' = <<>>
    /\ UNCHANGED <<env, dest, mode, usersLocals, zrLocals>>

(***************************************************************************)
(* SyncService.sync_users.                                                 *)
(***************************************************************************)
\* sync_users up to the loop: the fetch; its failure is re-raised, run_sync
\* catches it and calls sys.exit(1).
SyncUsersFetch ==
    /\ pc = "sync_users"
    /\ \E fetchOk \in BOOLEAN :
          /\ ~fetchOk => faults < MaxFaults
          /\ faults' = IF fetchOk THEN faults ELSE faults + 1
          /\ steady' = (steady /\ fetchOk)
          /\ calls' = Append(calls, Call("fetch", "users", 0, "", NoId, <<>>, fetchOk))
          /\ admin_users' = IF fetchOk THEN get_all_contacts(srcUsers) ELSE <<>>
          /\ iu' = IF fetchOk THEN 1 ELSE 0
          /\ pc' = IF fetchOk THEN "users_loop" ELSE "off"
          /\ exit' = IF fetchOk THEN exit ELSE <<1>>
    /\ users_count' = ZeroCount
    /\ UNCHANGED <<env, dest, mode, runs, zrLocals, resU, resZ, dest0, rerun, edited>>

\* One iteration of sync_users' loop.
SyncUsersStep ==
    /\ pc = "users_loop"
    /\ iu <= Len(admin_users)
    /\ \E lookupOk, countryOk, groupOk, writeOk \in BOOLEAN :
          LET user == admin_users[iu]
              r == sync_users_body(dest, groups, user, lookupOk, countryOk, groupOk, writeOk)
              n == CountFalse(<<lookupOk, countryOk, groupOk, writeOk>>)
          IN /\ FlagsUsed(r, lookupOk, countryOk, groupOk, writeOk)
             /\ faults + n <= MaxFaults
             /\ faults' = faults + n
             /\ steady' = (steady /\ n = 0)
             /\ dest' = r.dest
             /\ users_count' = [users_count EXCEPT ![r.tally] = @ + 1]
             /\ iu' = LoopNext(iu, r.tally)
             /\ calls' = calls \o BodyCalls("users", iu, user.entraID, lookupOk, r)
    /\ UNCHANGED <<env, pc, mode, exit, runs, admin_users, zrLocals, resU, resZ, dest0, rerun, edited>>

\* A sync_users that raises after the loop when a record failed, which ends
\* the run in run_sync's except clause.
SyncUsersReturnRaises ==
    /\ pc = "users_loop"
    /\ iu > Len(admin_users)
    /\ resU' = IF users_count.failed > 0 THEN <<>>
               ELSE <<Len(admin_users), users_count.updated, users_count.created>>
    /\ calls' = IF users_count.failed > 0 THEN calls
                ELSE Append(calls, Call("return", "users", 0, "", NoId, <<>>, TRUE))
    /\ admin_users' = <<>> /\ iu' = 0 /\ users_count' = ZeroCount
    /\ pc' = IF users_count.failed > 0 THEN "off" ELSE "sync_zr_customers"
    /\ exit' = IF users_count.failed > 0 THEN <<1>> ELSE exit
    /\ UNCHANGED <<env, dest, mode, runs, zrLocals, resZ, faults, steady, dest0, rerun, edited>>

\* sync_users after the loop: the tuple is returned to run_sync.
SyncUsersReturn ==
    /\ pc = "users_loop"
    /\ iu > Len(admin_users)
    /\ resU' = ResultTuple(admin_users, users_count)
    /\ calls' = Append(calls, Call("return", "users", 0, "", NoId, <<>>, TRUE))
    /\ admin_users' = <<>> /\ iu' = 0 /\ users_count' = ZeroCount
    /\ pc' = "sync_zr_customers"
    /\ UNCHANGED <<env, dest, mode, exit, runs, zrLocals, resZ, faults, steady, dest0, rerun, edited>>

(***************************************************************************)
(* SyncService.sync_zr_customers.                                          *)
(***************************************************************************)
SyncZrFetch ==
    /\ pc = "sync_zr_customers"
    /\ \E fetchOk \in BOOLEAN :
          /\ ~fetchOk => faults < MaxFaults
          /\ faults' = IF fetchOk THEN faults ELSE faults + 1
          /\ steady' = (steady /\ fetchOk)
          /\ calls' = Append(calls, Call("fetch", "zr", 0, "", NoId, <<>>, fetchOk))
          /\ zr_contacts' = IF fetchOk THEN get_all_zr_contacts(srcZr) ELSE <<>>
          /\ iz' = IF fetchOk THEN 1 ELSE 0
          /\ pc' = IF fetchOk THEN "zr_loop" ELSE "off"
          /\ exit' = IF fetchOk THEN exit ELSE <<1>>
    /\ zr_count' = ZeroCount
    /\ UNCHANGED <<env, dest, mode, runs, usersLocals, resU, resZ, dest0, rerun, edited>>

\* One iteration of sync_zr_customers' loop.
SyncZrStep ==
    /\ pc = "zr_loop"
    /\ iz <= Len(zr_contacts)
    /\ \E lookupOk, countryOk, groupOk, writeOk \in BOOLEAN :
          LET zr_contact == zr_contacts[iz]
              r == sync_zr_customers_body(dest, groups, zr_contact, lookupOk, countryOk, groupOk, writeOk)
              n == CountFalse(<<lookupOk, countryOk, groupOk, writeOk>>)
          IN /\ FlagsUsed(r, lookupOk, countryOk, groupOk, writeOk)
             /\ faults + n <= MaxFaults
             /\ faults' = faults + n
             /\ steady' = (steady /\ n = 0)
             /\ dest' = r.dest
             /\ zr_count' = [zr_count EXCEPT ![r.tally] = @ + 1]
             /\ iz' = LoopNext(iz, r.tally)
             /\ calls' = calls \o BodyCalls("zr", iz, zr_contact.zrNummer, lookupOk, r)
    /\ UNCHANGED <<env, pc, mode, exit, runs, zr_contacts, usersLocals, resU, resZ, dest0, rerun, edited>>

\* An end of run_sync that reports failed records in the exit status.
SyncZrReturnFailedStatus ==
    /\ pc = "zr_loop"
    /\ iz > Len(zr_contacts)
    /\ resZ' = ResultTuple(zr_contacts, zr_count)
    /\ calls' = Append(calls, Call("return", "zr", 0, "", NoId, <<>>, TRUE))
    /\ zr_contacts' = <<>> /\ iz' = 0 /\ zr_count' = ZeroCount
    /\ pc' = IF mode = "once" THEN "off" ELSE "scheduler"
    /\ exit' = IF mode = "once"
               THEN (IF zr_count.failed > 0 THEN <<1>> ELSE <<0>>)
               ELSE exit
    /\ UNCHANGED <<env, dest, mode, runs, usersLocals, resU, faults, steady, dest0, rerun, edited>>

\* sync_zr_customers after the loop, and the end of run_sync: with --once the
\* process ends with status 0, else the scheduler waits for the next day.
SyncZrReturn ==
    /\ pc = "zr_loop"
    /\ iz > Len(zr_contacts)
    /\ resZ' = ResultTuple(zr_contacts, zr_count)
    /\ calls' = Append(calls, Call("return", "zr", 0, "", NoId, <<>>, TRUE))
    /\ zr_contacts' = <<>> /\ iz' = 0 /\ zr_count' = ZeroCount
    /\ pc' = IF mode = "once" THEN "off" ELSE "scheduler"
    /\ exit' = IF mode = "once" THEN <<0>> ELSE exit
    /\ UNCHANGED <<env, dest, mode, runs, usersLocals, resU, faults, steady, dest0, rerun, edited>>

Next ==
    \/ AdminPanelEdit
    \/ Main
    \/ Trigger
    \/ RunSyncInit
    \/ SyncUsersFetch
    \/ SyncUsersStep
    \/ SyncUsersReturn
    \/ SyncZrFetch
    \/ SyncZrStep
    \/ SyncZrReturn

Spec == Init /\ [][Next]_vars

\* The runs that start from an empty destination.
InitEmpty == InitWith(<<>>)
SpecEmpty == InitEmpty /\ [][Next]_vars

\* A customer Shopware may hold that has a default shipping address and no
\* default billing address.
SeedNoBilling ==
    [id |-> 1, email |-> "alt@kauer.ch", firstName |-> "T.", lastName |-> "Kauer",
     customerNumber |-> "112212", company |-> "Kauer (112212)", vatIds |-> <<>>,
     groupId |-> GroupId("Standard customer group"),
     defaultBillingAddressId |-> NoId, defaultShippingAddressId |-> 1,
     addresses |-> << [id |-> 1, firstName |-> "T.", lastName |-> "Kauer",
                       street |-> "Alte Str. 9", zipcode |-> "8000",
                       city |-> "Zuerich", countryId |-> "country-DE",
                       company |-> "Kauer"] >>,
     entraID |-> "e1"]

\* The runs that start from a destination holding that customer.
InitNoBilling == InitWith(<<SeedNoBilling>>)
SpecNoBilling == InitNoBilling /\ [][Next]_vars

(***************************************************************************)
(* Properties.  calls holds the current run's requests; the entries of a   *)
(* pass carry the index (rec) of the record they were made for.            *)
(***************************************************************************)
IsWrite(c) == c.ev \in {"POST", "PATCH"}

\* The indices of the entries of calls that satisfy the given description.
Lookups(pass, rec) ==
    {k \in 1..Len(calls) : calls[k].ev = "lookup" /\ calls[k].pass = pass /\ calls[k].rec = rec}
Writes(pass, rec) ==
    {k \in 1..Len(calls) : IsWrite(calls[k]) /\ calls[k].pass = pass /\ calls[k].rec = rec}
WritesOf(pass, method) ==
    {k \in 1..Len(calls) : calls[k].ev = method /\ calls[k].pass = pass}
Fetches(pass) ==
    {k \in 1..Len(calls) : calls[k].ev = "fetch" /\ calls[k].pass = pass}
Failures(pass) ==
    {k \in 1..Len(calls) : calls[k].pass = pass /\ calls[k].rec > 0 /\ ~calls[k].ok}

\* The records of a pass that have been processed in the current state.
Processed(pass) ==
    IF pass = "users"
    THEN (IF pc = "users_loop" THEN 1..(iu - 1)
          ELSE IF resU # <<>> THEN 1..resU[1] ELSE {})
    ELSE (IF pc = "zr_loop" THEN 1..(iz - 1)
          ELSE IF resZ # <<>> THEN 1..resZ[1] ELSE {})

\* C1: in sync_users every processed contact has exactly one lookup; a contact
\* whose lookup returned a customer gets exactly one write, an update (PATCH)
\* of that customer, and no create; a contact whose lookup returned none gets
\* no update and at most one create (POST); a contact whose lookup failed gets
\* no write.  So no contact gets more than one write in a run.
C1_UpdateIffMatched ==
    \A rec \in Processed("users") :
        /\ Cardinality(Lookups("users", rec)) = 1
        /\ Cardinality(Writes("users", rec)) <= 1
        /\ \A l \in Lookups("users", rec) :
              /\ calls[l].ok /\ calls[l].id # NoId =>
                    /\ Cardinality(Writes("users", rec)) = 1
                    /\ \A w \in Writes("users", rec) :
                          calls[w].ev = "PATCH" /\ calls[w].id = calls[l].id /\ w > l
              /\ calls[l].ok /\ calls[l].id = NoId =>
                    \A w \in Writes("users", rec) : calls[w].ev = "POST" /\ w > l
              /\ ~calls[l].ok => Writes("users", rec) = {}

\* C1's case: a run of sync_users that created one contact and updated another.
C1_Witness ==
    /\ WritesOf("users", "POST") # {}
    /\ WritesOf("users", "PATCH") # {}
    /\ resU # <<>>

ContactOf(pass, rec) == IF pass = "users" THEN admin_users[rec] ELSE zr_contacts[rec]

\* The passes whose loop is running, whose contacts ContactOf can name.
Running == IF pc = "users_loop" THEN {"users"} ELSE IF pc = "zr_loop" THEN {"zr"} ELSE {}

\* The write requests of the running pass.
RunningWrites == {k \in 1..Len(calls) : IsWrite(calls[k]) /\ calls[k].pass \in Running}

\* C4 (as claimed): no create or update request is issued for a contact whose
\* country is not resolved: no write request carries a null countryId, so such
\* a record is never tallied as created or updated.
C4_NoRequestWithoutCountry ==
    \A k \in 1..Len(calls) :
        IsWrite(calls[k]) => calls[k].payload[1].addresses[1].countryId # None

RunEnded == pc \in {"off", "scheduler"} /\ calls # <<>> /\ calls[1].ok

OkWrites(pass, method) == {k \in WritesOf(pass, method) : calls[k].ok}

\* The counters of each pass count the outcomes of that pass' records alone.
CountersSeparate ==
    /\ pc = "users_loop" =>
          /\ users_count.updated = Cardinality(OkWrites("users", "PATCH"))
          /\ users_count.created = Cardinality(OkWrites("users", "POST"))
    /\ resU # <<>> =>
          /\ resU[2] = Cardinality(OkWrites("users", "PATCH"))
          /\ resU[3] = Cardinality(OkWrites("users", "POST"))
    /\ pc = "zr_loop" =>
          /\ zr_count.updated = Cardinality(OkWrites("zr", "PATCH"))
          /\ zr_count.created = Cardinality(OkWrites("zr", "POST"))
    /\ resZ # <<>> =>
          /\ resZ[2] = Cardinality(OkWrites("zr", "PATCH"))
          /\ resZ[3] = Cardinality(OkWrites("zr", "POST"))

\* C5 (as claimed): whatever fails in the individual pass, the failure to fetch
\* the individual contact list included, a run that authenticated executes the
\* ZR pass; and each pass' counters count that pass' records alone.
C5_ZrPassAlwaysRuns ==
    /\ RunEnded => Fetches("zr") # {}
    /\ CountersSeparate

\* C5 (amended): failures of individual records never keep the ZR pass from
\* running: a run whose fetch of the individual list succeeded executes the ZR
\* pass, however many records failed; a run whose fetch of the individual list
\* failed ends there, without a ZR pass, the process ending with status 1; and
\* each pass' counters count that pass' records alone.
C5_PassesIndependent ==
    /\ RunEnded =>
          /\ (\E k \in Fetches("users") : calls[k].ok) => Fetches("zr") # {}
          /\ (\A k \in Fetches("users") : ~calls[k].ok) =>
                /\ Fetches("zr") = {}
                /\ resZ = <<>>
                /\ pc = "off" => exit = <<1>>
    /\ CountersSeparate

\* C5's case: a run in which a record of the individual pass failed and the ZR
\* pass wrote a customer.
C5_Witness ==
    /\ RunEnded
    /\ Failures("users") # {}
    /\ resZ # <<>> /\ resZ[2] + resZ[3] > 0

\* adresstyp.split(";")
SplitTypes(adresstyp) ==
    IF adresstyp = BothTypes THEN {BillingType, ShippingType} ELSE {adresstyp}

\* C6 (as claimed): in every write request the default-address references
\* follow the contact's address type: both are the payload's address id when the
\* type names billing and shipping; billing alone is, and
\* defaultShippingAddressId is not set, when the type is "Rechnungsanschrift".
C6_AddressTypeSelectsDefaults ==
    \A k \in RunningWrites :
        LET types == SplitTypes(ContactOf(calls[k].pass, calls[k].rec).adresstyp)
            p == calls[k].payload[1]
        IN /\ types = {BillingType, ShippingType} =>
                 /\ p.defaultBillingAddressId = p.addresses[1].id
                 /\ p.defaultShippingAddressId = p.addresses[1].id
           /\ types = {BillingType} =>
                 /\ p.defaultBillingAddressId = p.addresses[1].id
                 /\ p.defaultShippingAddressId = NoId

\* C7 (as claimed), for runs from an empty destination: no two customers carry
\* the same entraID; and after a completed run each fetched ZR contact's
\* zrNummer is the customerNumber of at most one customer, one created for an
\* organisation (without entraID).
C7_KeysUnique ==
    /\ \A i, j \in 1..Len(dest) :
          dest[i].entraID # None /\ dest[i].entraID = dest[j].entraID => i = j
    /\ (Completed /\ ~edited) =>
          \A n \in 1..Len(get_all_zr_contacts(srcZr)) :
              LET S == HasCustomerNumber(dest, get_all_zr_contacts(srcZr)[n].zrNummer)
              IN Cardinality(S) <= 1 /\ \A i \in S : dest[i].entraID = None

\* C8: in an iteration of sync_zr_customers whose lookup got its answer, a
\* customer is matched exactly if some customer has customerNumber = the
\* contact's zrNummer, the matched customer is one of those, and the write is
\* an update of it if one is matched and a create if none is: nothing but
\* zrNummer and the customers' customerNumber enters the decision.
C8_ZrMatchByNumberOnly ==
    [][(pc = "zr_loop" /\ pc' = "zr_loop" /\ iz' # iz) =>
          LET S == HasCustomerNumber(dest, zr_contacts[iz].zrNummer)
              l == calls'[Len(calls) + 1]
          IN l.ok =>
                /\ (l.id # NoId) <=> (S # {})
                /\ l.id # NoId =>
                      /\ l.id \in S
                      /\ Len(calls') = Len(calls) + 2
                      /\ calls'[Len(calls) + 2].ev = "PATCH"
                      /\ calls'[Len(calls) + 2].id = l.id
                      /\ Len(dest') = Len(dest)
                /\ l.id = NoId =>
                      \A k \in (Len(calls) + 2)..Len(calls') : calls'[k].ev = "POST"
      ]_vars

\* C8's case: a run of sync_zr_customers that created a customer for one
\* contact and updated it for another contact of the same zrNummer whose other
\* fields differ.
C8_Witness ==
    \E k1 \in OkWrites("zr", "POST"), k2 \in OkWrites("zr", "PATCH") :
        /\ calls[k2].id = Len(dest)
        /\ calls[k1].payload[1].customerNumber = calls[k2].payload[1].customerNumber
        /\ calls[k1].payload[1].company # calls[k2].payload[1].company

C10_ZrSyntheticEmailNoNames ==
    \A k \in RunningWrites :
        LET c == ContactOf(calls[k].pass, calls[k].rec)
            p == calls[k].payload[1]
        IN IF calls[k].pass = "zr"
           THEN /\ p.email = "zr" \o c.zrNummer \o "@einrichtungspartnerring.com"
                /\ p.firstName = None /\ p.lastName = None
                /\ p.addresses[1].firstName = None /\ p.addresses[1].lastName = None
           ELSE /\ p.email = c.eMailadresse
                /\ p.firstName = c.vorname /\ p.lastName = c.name
                /\ p.addresses[1].firstName = c.vorname
                /\ p.addresses[1].lastName = c.name

\* C10's case: a ZR pass that has issued a create and an update, after an
\* individual pass that wrote a customer.
C10_Witness ==
    /\ pc = "zr_loop"
    /\ WritesOf("zr", "POST") # {} /\ WritesOf("zr", "PATCH") # {}
    /\ resU # <<>> /\ resU[2] + resU[3] > 0

\* The records of a pass that were looked up in the current run.
LookedUp(pass) ==
    {calls[k].rec : k \in {j \in 1..Len(calls) : calls[j].ev = "lookup" /\ calls[j].pass = pass}}

\* The tuple a pass returned is (total, updated, created) of the current run's
\* requests: total records looked up, updates and creates that completed.
TupleOf(res, pass) ==
    res # <<>> =>
        /\ res[1] = Cardinality(LookedUp(pass))
        /\ res[2] = Cardinality(OkWrites(pass, "PATCH"))
        /\ res[3] = Cardinality(OkWrites(pass, "POST"))

\* C11: each pass returns (total, updated, created): total is the number of
\* records of the fetched list, updated the number of update requests that
\* completed, created the number of create requests that completed.  When no
\* request of the run failed: a list of one individual contact whose lookup
\* returned no customer yields exactly one create, no update and (1, 0, 1),
\* provided a customer group exists; a list of one ZR contact whose lookup
\* returned a customer yields exactly one update, of that customer, no create
\* and (1, 1, 0).
C11_ResultTuples ==
    /\ TupleOf(resU, "users")
    /\ TupleOf(resZ, "zr")
    /\ (resU # <<>> /\ ~edited) => resU[1] = Len(get_all_contacts(srcUsers))
    /\ (resZ # <<>> /\ ~edited) => resZ[1] = Len(get_all_zr_contacts(srcZr))
    /\ (steady /\ groups # <<>> /\ resU # <<>> /\ resU[1] = 1
           /\ \A l \in Lookups("users", 1) : calls[l].id = NoId) =>
          /\ resU = <<1, 0, 1>>
          /\ Cardinality(WritesOf("users", "POST")) = 1
          /\ WritesOf("users", "PATCH") = {}
    /\ (steady /\ resZ # <<>> /\ resZ[1] = 1
           /\ \A l \in Lookups("zr", 1) : calls[l].id # NoId) =>
          /\ resZ = <<1, 1, 0>>
          /\ Cardinality(WritesOf("zr", "PATCH")) = 1
          /\ WritesOf("zr", "POST") = {}
          /\ \A l \in Lookups("zr", 1), w \in WritesOf("zr", "PATCH") :
                calls[w].id = calls[l].id

\* C11's case: a run without a failed request in which the individual pass
\* returned (1, 0, 1) and the ZR pass (1, 1, 0).
C11_Witness ==
    /\ Completed /\ steady
    /\ resU = <<1, 0, 1>>
    /\ resZ = <<1, 1, 0>>

\* C12 (as claimed): an update request carries, as the id of its address and as
\* both default-address references, the matched customer's
\* defaultBillingAddressId, or its defaultShippingAddressId when it has no
\* default billing address; and while the customer has either, the update adds
\* no address to it.
C12_UpdateReusesAddressId ==
    [][\A k \in (Len(calls) + 1)..Len(calls') :
          calls'[k].ev = "PATCH" =>
              LET existing_customer == dest[calls'[k].id]
                  p == calls'[k].payload[1]
                  expected == IF existing_customer.defaultBillingAddressId # NoId
                              THEN existing_customer.defaultBillingAddressId
                              ELSE existing_customer.defaultShippingAddressId
              IN /\ p.addresses[1].id = expected
                 /\ p.defaultBillingAddressId = expected
                 /\ p.defaultShippingAddressId = expected
                 /\ expected # NoId =>
                       Len(dest'[calls'[k].id].addresses) = Len(existing_customer.addresses)
      ]_vars

\* C13 (as claimed): no write request, create or update, is issued for a record
\* for which a required reference id (customer group, sales channel,
\* salutation) is not resolved: every write request carries all three.
C13_NoWriteWithoutReferenceIds ==
    \A k \in 1..Len(calls) :
        IsWrite(calls[k]) =>
            /\ Truthy(calls[k].payload[1].groupId)
            /\ Truthy(calls[k].payload[1].salesChannelId)
            /\ Truthy(calls[k].payload[1].salutationId)

\* The current run ended in run_sync's except clause: its last request, the
\* authentication or the fetch of a contact list, failed.
RunLevelError ==
    /\ calls # <<>>
    /\ calls[Len(calls)].ev \in {"auth", "fetch"}
    /\ ~calls[Len(calls)].ok

\* C14 (as claimed): in scheduled mode a run-level error ends only the run: the
\* process is back in the scheduler loop, waiting for the next daily trigger,
\* and has not exited.
C14_ScheduledRunErrorKeepsScheduler ==
    (mode = "scheduled" /\ RunLevelError) => (pc = "scheduler" /\ exit = <<>>)

\* The records of a pass that its tuple does not count as updated or created.
FailedOf(res) == IF res = <<>> THEN 0 ELSE res[1] - (res[2] + res[3])

\* C15: with --once the process ends with status 1 exactly if the run ended in
\* a run-level error (authentication, or the fetch of either contact list),
\* and with status 0 exactly if both passes returned; failures of single
\* records, however many, never end the process: while the loops run it has
\* not exited, and a run without run-level error returns both tuples and ends
\* with status 0.
C15_OnceExitStatus ==
    /\ (mode = "once" /\ exit # <<>>) =>
          /\ exit \in {<<0>>, <<1>>}
          /\ exit = <<1>> <=> RunLevelError
          /\ exit = <<0>> <=> Completed
          /\ exit = <<0>> => resU # <<>> /\ resZ # <<>>
    /\ pc \in {"users_loop", "zr_loop", "sync_zr_customers"} => exit = <<>>

\* C15's case: a run with --once in which three or more records failed, in
\* both passes, and the process ended with status 0.
C15_Witness ==
    /\ mode = "once" /\ exit = <<0>>
    /\ FailedOf(resU) > 0 /\ FailedOf(resZ) > 0
    /\ FailedOf(resU) + FailedOf(resZ) >= 3

\* The ids of the addresses of customer i.
AddressIdsOf(i) == {dest[i].addresses[j].id : j \in 1..Len(dest[i].addresses)}

Stage(c) ==
    IF c.ev = "auth" THEN 0
    ELSE (IF c.pass = "users" THEN 0 ELSE 1000)
         + (IF c.ev = "fetch" THEN 1
            ELSE IF c.ev = "return" THEN 999
            ELSE 10 * c.rec + (IF c.ev = "lookup" THEN 0 ELSE 1))

\* C17: the requests of a run are issued in strict sequence: the lookup of a
\* record comes after the lookup and the write of every earlier record of its
\* list and before its own write; and the fetch of the ZR list and the lookup
\* of its first record come after every request of the individual pass and
\* after that pass has returned.
C17_StrictlySequential ==
    /\ \A k \in 1..(Len(calls) - 1) : Stage(calls[k]) < Stage(calls[k + 1])
    /\ \A k \in Fetches("zr") :
          /\ resU # <<>>
          /\ Cardinality(LookedUp("users")) = resU[1]
          /\ \A j \in 1..Len(calls) : calls[j].pass = "users" => j < k
    /\ pc \in {"sync_users", "users_loop"} => \A k \in 1..Len(calls) : calls[k].pass # "zr"

\* C17's case: a run in which both passes processed two records, each record of
\* the individual pass with a write.
C17_Witness ==
    /\ Completed
    /\ resU # <<>> /\ resU[1] = 2 /\ resU[2] + resU[3] = 2
    /\ resZ # <<>> /\ resZ[1] = 2

\* The records of a pass with a write request of that method that completed.
RecsWritten(pass, method) == {calls[k].rec : k \in OkWrites(pass, method)}

\* The records of a pass that were looked up and have no completed write.
RecsFailed(pass) ==
    LookedUp(pass) \ (RecsWritten(pass, "PATCH") \cup RecsWritten(pass, "POST"))

\* The three counters of a pass count three disjoint sets of records that
\* together are the n records processed.
Partition(count, pass, n) ==
    /\ count.updated + count.created + count.failed = n
    /\ LookedUp(pass) = 1..n
    /\ count.updated = Cardinality(RecsWritten(pass, "PATCH"))
    /\ count.created = Cardinality(RecsWritten(pass, "POST"))
    /\ count.failed = Cardinality(RecsFailed(pass))
    /\ RecsWritten(pass, "PATCH") \cap RecsWritten(pass, "POST") = {}

\* C18: at every loop boundary of a pass each record processed so far is
\* counted in exactly one of updated, created and failed: updated are the
\* records whose update completed, created those whose create completed,
\* failed all others, among them every record whose lookup or write raised or
\* whose create raised before a request; and in the tuple a pass returns,
\* total - updated - created is the number of failed records.
C18_TallyPartition ==
    /\ pc = "users_loop" => Partition(users_count, "users", iu - 1)
    /\ pc = "zr_loop" => Partition(zr_count, "zr", iz - 1)
    /\ resU # <<>> => FailedOf(resU) = Cardinality(RecsFailed("users"))
    /\ resZ # <<>> => FailedOf(resZ) = Cardinality(RecsFailed("zr"))
    /\ \A k \in 1..Len(calls) :
          (calls[k].rec > 0 /\ ~calls[k].ok) => calls[k].rec \in RecsFailed(calls[k].pass)

\* C18's case: at the end of the ZR loop, a write has failed for one record
\* and completed for the other.
C18_Witness ==
    /\ pc = "zr_loop" /\ iz = 3
    /\ zr_count.failed = 1 /\ zr_count.updated + zr_count.created = 1
    /\ \E k \in Failures("zr") : IsWrite(calls[k])

\* C19 (as claimed), for runs from an empty destination, where every customer
\* was created by a pass: the ZR pass issues no update for a customer created
\* for an individual contact (one with an entraID), and the individual pass
\* issues none for a customer created for a ZR contact (one without).
C19_PassesDoNotInterfere ==
    \A k \in 1..Len(calls) :
        calls[k].ev = "PATCH" =>
            /\ calls[k].pass = "zr" => dest[calls[k].id].entraID = None
            /\ calls[k].pass = "users" => dest[calls[k].id].entraID # None

=============================================================================
